---------------------------- MODULE Spec2Model ----------------------------
(***************************************************************************)
(* Conway's Game of Life with genetics (colour inheritance) and maturity,  *)
(* modelled from src/app.js: the Cell and Board objects, the colour        *)
(* palette and the UI handlers that drive them.                            *)
(*                                                                         *)
(* Numbers that the program keeps as IEEE-754 doubles and adds to          *)
(* (Cell.maturity) are modelled as exact doubles: a double d is the pair   *)
(* <<hi, lo>> with d = (hi * 2^28 + lo) * 2^-56, and an addition is the    *)
(* exact sum rounded to 53 significant bits, ties to even.                 *)
(* Colours are JavaScript strings, modelled as sequences of one-character  *)
(* strings.                                                                *)
(***************************************************************************)
EXTENDS Integers, Sequences, FiniteSets, TLC

VARIABLES board,     \* the global `board`: [width, height, cells, next]
          chosen,    \* index of the palette element that has class 'chosen'
          running,   \* the global `running` flag
          survived,  \* history: per cell, updates survived since it last came to life
          origin,    \* history: per cell, how it last came to life or got its colour
          diedAfter, \* history: per cell, updates it had survived when it last died
          nClicks,   \* history: number of cell toggles performed so far
          op,        \* history: the last handler that wrote to the board, and its arguments
          signal,    \* history: what the last handler run raised: "", "TypeError" or "alert"
          interval,  \* the global `interval`: the handle of the last setInterval call
          timers,    \* the browser's active interval timers: a set of [id, delay]
          fired      \* history: handles of the timers that ran gameLoop in this tick period

vars == <<board, chosen, running, survived, origin, diedAfter, nClicks, op, signal,
          interval, timers, fired>>

timerVars == <<interval, timers, fired>>

---------------------------------------------------------------------------
(* Bounds of the exploration *)

MaxWidth == 3       \* largest board width explored
MaxHeight == 3      \* largest board height explored
MaxGridCells == 9   \* largest number of cells of a seeded board of the running simulation
MaxCells == 4       \* largest number of cells of a board that is built and edited
MaxClicks == 3      \* largest number of cell toggles in one behaviour
SeedClicks == 1     \* number of cell toggles explored from a seeded board
MaxAgeAtClick == 3  \* a click is explored while every cell has survived fewer updates
MaxSurvive == 11    \* an update is explored while every cell has survived fewer updates
TickWidth == 2      \* board width of the simulation whose timer keeps firing
TickHeight == 2     \* board height of the simulation whose timer keeps firing
MaxTimers == 3      \* largest number of setInterval calls explored

---------------------------------------------------------------------------
(* IEEE-754 doubles in [2^-4, 2) as multiples of 2^-56 *)

LimbBase == 2 ^ 28

\* the double literal 0.1 = 7205759403792794 * 2^-56
Tenth == <<26843545, 161061274>>

\* the double literal 1 = 2^56 * 2^-56
One == <<268435456, 0>>

\* a < b on doubles
DblLess(a, b) == a[1] < b[1] \/ (a[1] = b[1] /\ a[2] < b[2])

\* the exact sum of two multiples of 2^-56
ExactAdd(a, b) ==
    LET lo == a[2] + b[2]
    IN  <<a[1] + b[1] + (lo \div LimbBase), lo % LimbBase>>

\* the spacing of doubles in the binade of v, in units of 2^-56
Ulp(v) ==
    IF v[1] < 33554432 THEN 1            \* v < 2^53: below 1/8
    ELSE IF v[1] < 67108864 THEN 2       \* v < 2^54: below 1/4
    ELSE IF v[1] < 134217728 THEN 4      \* v < 2^55: below 1/2
    ELSE IF v[1] < 268435456 THEN 8      \* v < 2^56: below 1
    ELSE 16                              \* below 2

\* round an exact value to the nearest double, ties to even
RoundToDouble(v) ==
    LET u == Ulp(v)
        r == v[2] % u
        down == <<v[1], v[2] - r>>
        up == ExactAdd(down, <<0, u>>)
        odd == ((v[2] \div u) % 2) = 1
    IN  IF 2 * r > u \/ (2 * r = u /\ odd) THEN up ELSE down

\* a + b in double arithmetic
DblAdd(a, b) == RoundToDouble(ExactAdd(a, b))

---------------------------------------------------------------------------
(* Strings *)

\* String.prototype.substr(start, length) for 0 <= start
Substr(s, start, length) ==
    IF start >= Len(s) THEN <<>>
    ELSE SubSeq(s, start + 1, IF start + length < Len(s) THEN start + length ELSE Len(s))

\* the default colour of a Cell, '#000000'
DefaultColor == <<"#", "0", "0", "0", "0", "0", "0">>

\* the value undefined, which colorPalette.getColor returns when no element
\* has class 'chosen' and which a Cell then stores as its color
Undefined == <<"undefined">>

\* the values of the colour-picker elements of the palette
Palette == << <<"#", "a", "1", "a", "2", "a", "3">>,
              <<"#", "b", "1", "b", "2", "b", "3">> >>

---------------------------------------------------------------------------
(* Cell *)

Coords(w, h) == (0 .. w - 1) \X (0 .. h - 1)

\* new Cell(x, y)
Cell == [isAlive |-> FALSE, maturity |-> Tenth, color |-> DefaultColor]

\* kill that flips the alive flag instead of clearing it
kill_FlipsAlive(cell) == [cell EXCEPT !.isAlive = ~cell.isAlive, !.maturity = Tenth]

\* kill without the reset of the maturity value
kill_KeepsMaturity(cell) == [cell EXCEPT !.isAlive = FALSE]

\* Cell.prototype.kill
kill(cell) == [cell EXCEPT !.isAlive = FALSE, !.maturity = Tenth]

\* toggle whose alive branch always sets the colour and never kills
toggle_NeverKills(cell, color) ==
    IF cell.isAlive
    THEN [cell EXCEPT !.color = color]
    ELSE [cell EXCEPT !.isAlive = TRUE, !.color = color]

\* toggle whose recolour branch kills the cell and brings it back to life
toggle_RecolorRevives(cell, color) ==
    IF cell.isAlive
    THEN IF cell.color = color
         THEN kill(cell)
         ELSE [kill(cell) EXCEPT !.isAlive = TRUE, !.color = color]
    ELSE [cell EXCEPT !.isAlive = TRUE, !.color = color]

\* Cell.prototype.toggle, with color the value colorPalette.getColor() returned
toggle(cell, color) ==
    IF cell.isAlive
    THEN IF cell.color = color
         THEN kill(cell)
         ELSE [cell EXCEPT !.color = color]
    ELSE [cell EXCEPT !.isAlive = TRUE, !.color = color]

\* colorPalette.getColor: the value of the element that has class 'chosen',
\* and no return statement when there is none (chosen = 0)
getColor == IF chosen = 0 THEN Undefined ELSE Palette[chosen]

---------------------------------------------------------------------------
(* Board *)

\* Board whose loops run to x <= width and y <= height
Board_InclusiveLoops(width, height) ==
    [width |-> width, height |-> height,
     cells |-> [c \in Coords(width + 1, height + 1) |-> Cell],
     next |-> [c \in Coords(width + 1, height + 1) |-> FALSE]]

\* new Board(width, height)
Board(width, height) ==
    [width |-> width, height |-> height,
     cells |-> [c \in Coords(width, height) |-> Cell],
     next |-> [c \in Coords(width, height) |-> FALSE]]

\* clear whose outer loop stops one column short: x < this.width - 1
clear_SkipsLastColumn(b) ==
    [b EXCEPT !.cells = [c \in DOMAIN b.cells |->
                            IF c[1] < b.width - 1 THEN kill(b.cells[c]) ELSE b.cells[c]]]

\* Board.prototype.clear
clear(b) == [b EXCEPT !.cells = [c \in DOMAIN b.cells |-> kill(b.cells[c])]]

\* NeighborTests with the last block pasted from the one before it and only
\* its condition adapted: the bottom-left test reads the bottom cell again
NeighborTests_PastedBottom(b, x, y) ==
    << [ok |-> x # 0,                                pos |-> <<x - 1, y>>],
       [ok |-> x # 0 /\ y # 0,                       pos |-> <<x - 1, y - 1>>],
       [ok |-> y # 0,                                pos |-> <<x, y - 1>>],
       [ok |-> x # b.width - 1 /\ y # 0,             pos |-> <<x + 1, y - 1>>],
       [ok |-> x # b.width - 1,                      pos |-> <<x + 1, y>>],
       [ok |-> x # b.width - 1 /\ y # b.height - 1,  pos |-> <<x + 1, y + 1>>],
       [ok |-> y # b.height - 1,                     pos |-> <<x, y + 1>>],
       [ok |-> x # 0 /\ y # b.height - 1,            pos |-> <<x, y + 1>>] >>

\* the positions getLivingNeighbors tests, in the order it tests them, each
\* with the bounds condition that guards the test
NeighborTests(b, x, y) ==
    << [ok |-> x # 0,                                pos |-> <<x - 1, y>>],
       [ok |-> x # 0 /\ y # 0,                       pos |-> <<x - 1, y - 1>>],
       [ok |-> y # 0,                                pos |-> <<x, y - 1>>],
       [ok |-> x # b.width - 1 /\ y # 0,             pos |-> <<x + 1, y - 1>>],
       [ok |-> x # b.width - 1,                      pos |-> <<x + 1, y>>],
       [ok |-> x # b.width - 1 /\ y # b.height - 1,  pos |-> <<x + 1, y + 1>>],
       [ok |-> y # b.height - 1,                     pos |-> <<x, y + 1>>],
       [ok |-> x # 0 /\ y # b.height - 1,            pos |-> <<x - 1, y + 1>>] >>

\* the positions getLivingNeighbors reads: those whose bounds condition holds
NeighborReads(b, x, y) ==
    LET ts == NeighborTests(b, x, y)
        IsOk(t) == t.ok
        picked == SelectSeq(ts, IsOk)
    IN  [i \in 1 .. Len(picked) |-> picked[i].pos]

\* the array aliveNeighbors, as the positions of the cells pushed on it
aliveNeighbors(b, x, y) ==
    LET IsAlive(p) == b.cells[p].isAlive
    IN  SelectSeq(NeighborReads(b, x, y), IsAlive)

\* BuildColor with substrIndex = i * 2, which forgets the leading '#'
RECURSIVE BuildColor_NoHashOffset(_, _, _, _, _)
BuildColor_NoHashOffset(b, an, i, countLiving, color) ==
    IF i < countLiving /\ b.cells[an[i + 1]].color # Undefined
    THEN BuildColor_NoHashOffset(b, an, i + 1, countLiving,
                                 color \o Substr(b.cells[an[i + 1]].color, i * 2, 2))
    ELSE color

\* the colour built from the first countLiving entries of aliveNeighbors; the
\* loop ends early at an entry whose color is undefined, where .substr throws
RECURSIVE BuildColor(_, _, _, _, _)
BuildColor(b, an, i, countLiving, color) ==
    IF i < countLiving /\ b.cells[an[i + 1]].color # Undefined
    THEN BuildColor(b, an, i + 1, countLiving,
                    color \o Substr(b.cells[an[i + 1]].color, i * 2 + 1, 2))
    ELSE color

\* what the colour loop throws over the first countLiving entries of
\* aliveNeighbors: aliveNeighbors[i].color.substr with color undefined
BuildThrows(b, an, countLiving) ==
    IF \E i \in 1 .. countLiving : b.cells[an[i]].color = Undefined
    THEN "TypeError" ELSE ""

\* getLivingNeighbors that rebuilds the colour of any dead cell, without the
\* test that it has 3 living neighbours
getLivingNeighbors_RecolorsAnyDead(b, x, y) ==
    LET an == aliveNeighbors(b, x, y)
        countLiving == Len(an)
        currentCell == b.cells[<<x, y>>]
    IN  [count |-> countLiving,
         thrown |-> IF ~currentCell.isAlive
                    THEN BuildThrows(b, an, countLiving) ELSE "",
         board |-> IF ~currentCell.isAlive
                   THEN [b EXCEPT !.cells[<<x, y>>].color =
                                      BuildColor(b, an, 0, countLiving, <<"#">>)]
                   ELSE b]

\* getLivingNeighbors that rebuilds the colour of any cell with 3 living
\* neighbours, without the test that the cell is dead
getLivingNeighbors_RecolorsLiving(b, x, y) ==
    LET an == aliveNeighbors(b, x, y)
        countLiving == Len(an)
    IN  [count |-> countLiving,
         thrown |-> IF countLiving = 3
                    THEN BuildThrows(b, an, countLiving) ELSE "",
         board |-> IF countLiving = 3
                   THEN [b EXCEPT !.cells[<<x, y>>].color =
                                      BuildColor(b, an, 0, countLiving, <<"#">>)]
                   ELSE b]

\* getLivingNeighbors without currentCell.color = '#': the colour loop
\* appends to the colour the cell has
getLivingNeighbors_AppendsColor(b, x, y) ==
    LET an == aliveNeighbors(b, x, y)
        countLiving == Len(an)
        currentCell == b.cells[<<x, y>>]
    IN  [count |-> countLiving,
         thrown |-> IF ~currentCell.isAlive /\ countLiving = 3
                    THEN BuildThrows(b, an, countLiving) ELSE "",
         board |-> IF ~currentCell.isAlive /\ countLiving = 3
                   THEN [b EXCEPT !.cells[<<x, y>>].color =
                                      BuildColor(b, an, 0, countLiving, currentCell.color)]
                   ELSE b]

\* Board.prototype.getLivingNeighbors: the count it returns, what it throws
\* instead of returning, and the board it leaves
getLivingNeighbors(b, x, y) ==
    LET an == aliveNeighbors(b, x, y)
        countLiving == Len(an)
        currentCell == b.cells[<<x, y>>]
    IN  [count |-> countLiving,
         thrown |-> IF ~currentCell.isAlive /\ countLiving = 3
                    THEN BuildThrows(b, an, countLiving) ELSE "",
         board |-> IF ~currentCell.isAlive /\ countLiving = 3
                   THEN [b EXCEPT !.cells[<<x, y>>].color =
                                      BuildColor(b, an, 0, countLiving, <<"#">>)]
                   ELSE b]

\* FindNextCell with <= 2 for === 2: a living cell with too few neighbours stays
FindNextCell_NoUnderpopulation(b, x, y) ==
    LET first == getLivingNeighbors(b, x, y)
        afterFirst == IF b.cells[<<x, y>>].isAlive THEN first.board ELSE b
        second == getLivingNeighbors(afterFirst, x, y)
    IN  IF b.cells[<<x, y>>].isAlive /\ first.thrown # ""
        THEN [thrown |-> first.thrown, board |-> first.board]
        ELSE IF b.cells[<<x, y>>].isAlive /\ first.count <= 2
        THEN [thrown |-> "", board |-> [afterFirst EXCEPT !.next[<<x, y>>] = TRUE]]
        ELSE IF second.thrown # ""
        THEN [thrown |-> second.thrown, board |-> second.board]
        ELSE [thrown |-> "",
              board |-> [second.board EXCEPT !.next[<<x, y>>] = (second.count = 3)]]

\* FindNextCell with >= 2 for === 3: a dead cell with two living neighbours
\* is staged alive
FindNextCell_BirthAtTwo(b, x, y) ==
    LET first == getLivingNeighbors(b, x, y)
        afterFirst == IF b.cells[<<x, y>>].isAlive THEN first.board ELSE b
        second == getLivingNeighbors(afterFirst, x, y)
    IN  IF b.cells[<<x, y>>].isAlive /\ first.thrown # ""
        THEN [thrown |-> first.thrown, board |-> first.board]
        ELSE IF b.cells[<<x, y>>].isAlive /\ first.count = 2
        THEN [thrown |-> "", board |-> [afterFirst EXCEPT !.next[<<x, y>>] = TRUE]]
        ELSE IF second.thrown # ""
        THEN [thrown |-> second.thrown, board |-> second.board]
        ELSE [thrown |-> "",
              board |-> [second.board EXCEPT !.next[<<x, y>>] = (second.count >= 2)]]

\* FindNextCell with ||= for =: an entry of next that holds true stays true
FindNextCell_KeepsStale(b, x, y) ==
    LET first == getLivingNeighbors(b, x, y)
        afterFirst == IF b.cells[<<x, y>>].isAlive THEN first.board ELSE b
        second == getLivingNeighbors(afterFirst, x, y)
    IN  IF b.cells[<<x, y>>].isAlive /\ first.thrown # ""
        THEN [thrown |-> first.thrown, board |-> first.board]
        ELSE IF b.cells[<<x, y>>].isAlive /\ first.count = 2
        THEN [thrown |-> "", board |-> [afterFirst EXCEPT !.next[<<x, y>>] = TRUE]]
        ELSE IF second.thrown # ""
        THEN [thrown |-> second.thrown, board |-> second.board]
        ELSE [thrown |-> "",
              board |-> [second.board EXCEPT
                            !.next[<<x, y>>] = (b.next[<<x, y>>] \/ second.count = 3)]]

\* FindNextCell with the condition read as isAlive && (n === 2 || n === 3)
FindNextCell_AndBindsLoosest(b, x, y) ==
    LET first == getLivingNeighbors(b, x, y)
        afterFirst == IF b.cells[<<x, y>>].isAlive THEN first.board ELSE b
        second == getLivingNeighbors(afterFirst, x, y)
    IN  IF ~b.cells[<<x, y>>].isAlive
        THEN [thrown |-> "", board |-> [b EXCEPT !.next[<<x, y>>] = FALSE]]
        ELSE IF first.thrown # ""
        THEN [thrown |-> first.thrown, board |-> first.board]
        ELSE IF first.count = 2
        THEN [thrown |-> "", board |-> [afterFirst EXCEPT !.next[<<x, y>>] = TRUE]]
        ELSE IF second.thrown # ""
        THEN [thrown |-> second.thrown, board |-> second.board]
        ELSE [thrown |-> "",
              board |-> [second.board EXCEPT !.next[<<x, y>>] = (second.count = 3)]]

\* one iteration of the first loop of update:
\*   next[x][y] = isAlive && getLivingNeighbors(x, y) === 2 || getLivingNeighbors(x, y) === 3
\* with what it throws and the board it leaves; a call that throws leaves
\* next[x][y] unwritten
FindNextCell(b, x, y) ==
    LET first == getLivingNeighbors(b, x, y)
        afterFirst == IF b.cells[<<x, y>>].isAlive THEN first.board ELSE b
        second == getLivingNeighbors(afterFirst, x, y)
    IN  IF b.cells[<<x, y>>].isAlive /\ first.thrown # ""
        THEN [thrown |-> first.thrown, board |-> first.board]
        ELSE IF b.cells[<<x, y>>].isAlive /\ first.count = 2
        THEN [thrown |-> "", board |-> [afterFirst EXCEPT !.next[<<x, y>>] = TRUE]]
        ELSE IF second.thrown # ""
        THEN [thrown |-> second.thrown, board |-> second.board]
        ELSE [thrown |-> "",
              board |-> [second.board EXCEPT !.next[<<x, y>>] = (second.count = 3)]]

\* the number of calls of getLivingNeighbors(x, y) in one iteration of the
\* first loop of update: && and || evaluate their right operand only when the
\* left one does not decide the result
QueriesInFindNextCell(b, x, y) ==
    IF b.cells[<<x, y>>].isAlive
    THEN IF getLivingNeighbors(b, x, y).count = 2 THEN 1 ELSE 2
    ELSE 1

\* the order in which both loops of update visit the cells: x outer, y inner
VisitOrder(b) ==
    IF b.width < 1 \/ b.height < 1
    THEN \* x < this.width or y < this.height is false from the start
         << >>
    ELSE [k \in 1 .. b.width * b.height |-> <<(k - 1) \div b.height, (k - 1) % b.height>>]

\* the first loop of update, from the k-th cell of the visit order on; it
\* ends at the first iteration that throws
RECURSIVE FindNextFrom(_, _, _)
FindNextFrom(b, order, k) ==
    IF k > Len(order) THEN [thrown |-> "", board |-> b]
    ELSE \* the iteration is evaluated once, as the one element of a set
         CHOOSE found \in
             {IF staged.thrown # "" THEN staged ELSE FindNextFrom(staged.board, order, k + 1) :
                 staged \in {FindNextCell(b, order[k][1], order[k][2])}} : TRUE

\* ApplyNextCell whose birth branch also adds to the maturity
ApplyNextCell_BirthMatures(cell, aliveNextGen) ==
    IF cell.isAlive /\ aliveNextGen
    THEN IF DblLess(cell.maturity, One)
         THEN [cell EXCEPT !.maturity = DblAdd(cell.maturity, Tenth)]
         ELSE cell
    ELSE IF cell.isAlive /\ ~aliveNextGen
    THEN kill(cell)
    ELSE IF ~cell.isAlive /\ aliveNextGen
    THEN [cell EXCEPT !.isAlive = TRUE, !.maturity = DblAdd(cell.maturity, Tenth)]
    ELSE cell

\* ApplyNextCell whose death branch also puts the default colour back
ApplyNextCell_DeathResetsColor(cell, aliveNextGen) ==
    IF cell.isAlive /\ aliveNextGen
    THEN IF DblLess(cell.maturity, One)
         THEN [cell EXCEPT !.maturity = DblAdd(cell.maturity, Tenth)]
         ELSE cell
    ELSE IF cell.isAlive /\ ~aliveNextGen
    THEN [kill(cell) EXCEPT !.color = DefaultColor]
    ELSE IF ~cell.isAlive /\ aliveNextGen
    THEN [cell EXCEPT !.isAlive = TRUE]
    ELSE cell

\* one iteration of the second loop of update
ApplyNextCell(cell, aliveNextGen) ==
    IF cell.isAlive /\ aliveNextGen
    THEN IF DblLess(cell.maturity, One)
         THEN [cell EXCEPT !.maturity = DblAdd(cell.maturity, Tenth)]
         ELSE cell
    ELSE IF cell.isAlive /\ ~aliveNextGen
    THEN kill(cell)
    ELSE IF ~cell.isAlive /\ aliveNextGen
    THEN [cell EXCEPT !.isAlive = TRUE]
    ELSE cell

\* the second loop of update
ApplyNext(b) ==
    [b EXCEPT !.cells = [c \in DOMAIN b.cells |-> ApplyNextCell(b.cells[c], b.next[c])]]

\* the positions in the visit order at which the second loop of update calls
\* Cell.prototype.draw: kill draws the cell, and the loop kills the living
\* cells whose staged state is false
DrawsInApplyNext(b) ==
    {k \in 1 .. Len(VisitOrder(b)) :
        b.cells[VisitOrder(b)[k]].isAlive /\ ~b.next[VisitOrder(b)[k]]}

\* the positions in the visit order that the second loop of update has yet to
\* change when it is done with position k
PendingAfter(b, k) ==
    {j \in k + 1 .. Len(VisitOrder(b)) :
        ApplyNextCell(b.cells[VisitOrder(b)[j]], b.next[VisitOrder(b)[j]])
            # b.cells[VisitOrder(b)[j]]}

\* update in a single loop: each cell gets its new state as soon as it is
\* decided, so later cells count neighbours of the next generation
RECURSIVE InPlaceFrom(_, _, _)
InPlaceFrom(b, order, k) ==
    IF k > Len(order) THEN [thrown |-> "", board |-> b]
    ELSE LET found == FindNextCell(b, order[k][1], order[k][2])
             staged == found.board
         IN  IF found.thrown # "" THEN found
             ELSE InPlaceFrom([staged EXCEPT !.cells[order[k]] =
                                    ApplyNextCell(staged.cells[order[k]], staged.next[order[k]])],
                              order, k + 1)

update_InPlace(b) == InPlaceFrom(b, VisitOrder(b), 1)

\* Board.prototype.update: what it throws and the board it leaves; the second
\* loop runs only if the first loop has not thrown
update(b) ==
    CHOOSE updated \in
        {IF staged.thrown # "" THEN staged
         ELSE [thrown |-> "", board |-> ApplyNext(staged.board)] :
            staged \in {FindNextFrom(b, VisitOrder(b), 1)}} : TRUE

\* clickCell that clamps the coordinates onto the board before it toggles
clickCell_Clamps(b, x, y, color) ==
    LET Clamp(v, n) == IF v < 0 THEN 0 ELSE IF v > n - 1 THEN n - 1 ELSE v
        c == <<Clamp(x, b.width), Clamp(y, b.height)>>
    IN  IF c \in DOMAIN b.cells
        THEN [thrown |-> "", board |-> [b EXCEPT !.cells[c] = toggle(b.cells[c], color)]]
        ELSE [thrown |-> "TypeError", board |-> b]

\* clickCell that also stages the new state of the cell in next
clickCell_StagesToo(b, x, y, color) ==
    IF x \in 0 .. b.width - 1 /\ y \in 0 .. b.height - 1
    THEN [thrown |-> "",
          board |-> [b EXCEPT !.cells[<<x, y>>] = toggle(b.cells[<<x, y>>], color),
                              !.next[<<x, y>>] = toggle(b.cells[<<x, y>>], color).isAlive]]
    ELSE [thrown |-> "TypeError", board |-> b]

\* Board.prototype.clickCell: this.cells[x][y].toggle(), where cells[x] is
\* undefined for x outside 0 .. width - 1 and cells[x][y] is undefined for y
\* outside 0 .. height - 1; a property read or a call on undefined throws a
\* TypeError before anything is written
clickCell(b, x, y, color) ==
    IF x \in 0 .. b.width - 1 /\ y \in 0 .. b.height - 1
    THEN [thrown |-> "",
          board |-> [b EXCEPT !.cells[<<x, y>>] = toggle(b.cells[<<x, y>>], color)]]
    ELSE [thrown |-> "TypeError", board |-> b]

---------------------------------------------------------------------------
(* The basic variant: cells without colour and maturity *)

\* the positions the basic getLivingNeighbors tests, in the order it tests
\* them, each with the bounds condition that guards the test, and without
\* the last of them
BasicNeighborTests_SkipsTopRight(b, x, y) ==
    << [ok |-> x # b.width - 1,                      pos |-> <<x + 1, y>>],
       [ok |-> x # b.width - 1 /\ y # b.height - 1,  pos |-> <<x + 1, y + 1>>],
       [ok |-> y # b.height - 1,                     pos |-> <<x, y + 1>>],
       [ok |-> x # 0 /\ y # b.height - 1,            pos |-> <<x - 1, y + 1>>],
       [ok |-> x # 0,                                pos |-> <<x - 1, y>>],
       [ok |-> x # 0 /\ y # 0,                       pos |-> <<x - 1, y - 1>>],
       [ok |-> y # 0,                                pos |-> <<x, y - 1>>] >>

\* the positions the basic getLivingNeighbors tests, in the order it tests
\* them (from the right, through the bottom, to the top right), each with the
\* bounds condition that guards the test
BasicNeighborTests(b, x, y) ==
    << [ok |-> x # b.width - 1,                      pos |-> <<x + 1, y>>],
       [ok |-> x # b.width - 1 /\ y # b.height - 1,  pos |-> <<x + 1, y + 1>>],
       [ok |-> y # b.height - 1,                     pos |-> <<x, y + 1>>],
       [ok |-> x # 0 /\ y # b.height - 1,            pos |-> <<x - 1, y + 1>>],
       [ok |-> x # 0,                                pos |-> <<x - 1, y>>],
       [ok |-> x # 0 /\ y # 0,                       pos |-> <<x - 1, y - 1>>],
       [ok |-> y # 0,                                pos |-> <<x, y - 1>>],
       [ok |-> x # b.width - 1 /\ y # 0,             pos |-> <<x + 1, y - 1>>] >>

\* the basic Board.prototype.getLivingNeighbors: count goes up by one for
\* each test whose bounds condition holds and whose cell is alive
BasicGetLivingNeighbors(b, x, y) ==
    LET ts == BasicNeighborTests(b, x, y)
        Counts(t) == t.ok /\ b.cells[t.pos].isAlive
    IN  Len(SelectSeq(ts, Counts))

\* the basic Board.prototype.update: the first loop stages every cell in next
\* (the query writes nothing, so each entry depends on b alone), the second
\* loop copies next into isAlive
BasicUpdate(b) ==
    LET staged == [c \in DOMAIN b.cells |->
                      (b.cells[c].isAlive /\ BasicGetLivingNeighbors(b, c[1], c[2]) = 2)
                          \/ BasicGetLivingNeighbors(b, c[1], c[2]) = 3]
    IN  [b EXCEPT !.next = staged,
                  !.cells = [c \in DOMAIN b.cells |-> [isAlive |-> staged[c]]]]

---------------------------------------------------------------------------
(* History *)

NoSurvivals(b) == [c \in DOMAIN b.cells |-> 0]

NoOrigins(b) == [c \in DOMAIN b.cells |-> "none"]

NoDeaths(b) == [c \in DOMAIN b.cells |-> -1]

\* updates survived at the last death, after a handler that turned board b into nb
DiedAfterStep(b, nb, s, d) ==
    [c \in DOMAIN b.cells |->
        IF b.cells[c].isAlive /\ ~nb.cells[c].isAlive THEN s[c] ELSE d[c]]

\* updates survived since birth, after an update that turned board b into board nb
SurvivedAfterUpdate(b, nb, s) ==
    [c \in DOMAIN b.cells |->
        IF b.cells[c].isAlive /\ nb.cells[c].isAlive THEN s[c] + 1 ELSE 0]

\* origin of each cell's life, after an update that turned board b into board nb
OriginAfterUpdate(b, nb, o) ==
    [c \in DOMAIN b.cells |->
        IF ~b.cells[c].isAlive /\ nb.cells[c].isAlive THEN "rule" ELSE o[c]]

\* updates survived since birth, after a toggle of cell c
SurvivedAfterToggle(b, nb, s, c) ==
    IF b.cells[c].isAlive /\ nb.cells[c].isAlive THEN s ELSE [s EXCEPT ![c] = 0]

\* origin of each cell's life and colour, after a toggle of cell c
OriginAfterToggle(nb, o, c) ==
    IF nb.cells[c].isAlive THEN [o EXCEPT ![c] = "toggle"] ELSE o

\* the branch of Cell.prototype.toggle that a toggle of cell with color takes
ToggleBranch(cell, color) ==
    IF cell.isAlive
    THEN IF cell.color = color THEN "kill" ELSE "recolor"
    ELSE "revive"

\* no cell of board b is alive
AllDead(b) == \A c \in DOMAIN b.cells : ~b.cells[c].isAlive

Op(name, x, y, branch) == [name |-> name, x |-> x, y |-> y, branch |-> branch]

---------------------------------------------------------------------------
(* The handlers *)

\* the mousedown handler of the canvas: board.clickCell(x, y)
ClickCell(x, y) ==
    /\ <<x, y>> \in DOMAIN board.cells => nClicks < MaxClicks
    /\ \A c \in DOMAIN board.cells : survived[c] < MaxAgeAtClick
    /\ board' = clickCell(board, x, y, getColor).board
    /\ signal' = clickCell(board, x, y, getColor).thrown
    /\ IF <<x, y>> \in DOMAIN board.cells
       THEN /\ survived' = SurvivedAfterToggle(board, board', survived, <<x, y>>)
            /\ origin' = OriginAfterToggle(board', origin, <<x, y>>)
            /\ diedAfter' = DiedAfterStep(board, board', survived, diedAfter)
            /\ nClicks' = nClicks + 1
            /\ op' = Op("clickCell", x, y, ToggleBranch(board.cells[<<x, y>>], getColor))
       ELSE UNCHANGED <<survived, origin, diedAfter, nClicks, op>>
    /\ UNCHANGED <<chosen, running>>
    /\ UNCHANGED timerVars

\* colorPalette.chooseColor(id), from a click on a palette element or its
\* hot key; i = 0 is an id that names no element: the element that was chosen
\* has lost its class when getElementById returns null and the next line throws
ChooseColor(i) ==
    /\ chosen' = i
    /\ signal' = IF i = 0 THEN "TypeError" ELSE ""
    /\ UNCHANGED <<board, running, survived, origin, diedAfter, nClicks, op>>
    /\ UNCHANGED timerVars

\* togglePlay
TogglePlay ==
    /\ running' = ~running
    /\ signal' = ""
    /\ UNCHANGED <<board, chosen, survived, origin, diedAfter, nClicks, op>>
    /\ UNCHANGED timerVars

\* gameLoop without the test of running: every tick updates the board
GameLoop_IgnoresRunning ==
    /\ \A c \in DOMAIN board.cells : survived[c] < MaxSurvive
    /\ \E updated \in {update(board)} :
          /\ board' = updated.board
          /\ signal' = updated.thrown
          /\ IF updated.thrown = ""
             THEN /\ survived' = SurvivedAfterUpdate(board, board', survived)
                  /\ origin' = OriginAfterUpdate(board, board', origin)
                  /\ diedAfter' = DiedAfterStep(board, board', survived, diedAfter)
                  /\ op' = Op("update", 0, 0, IF AllDead(board) THEN "allDead" ELSE "")
             ELSE /\ op' = Op("update", 0, 0, updated.thrown)
                  /\ UNCHANGED <<survived, origin, diedAfter>>
    /\ UNCHANGED <<chosen, running, nClicks>>
    /\ UNCHANGED timerVars

\* the function gameLoop
gameLoop ==
    /\ \A c \in DOMAIN board.cells : survived[c] < MaxSurvive
    /\ IF running
       THEN \E updated \in {update(board)} :
               /\ board' = updated.board
               /\ signal' = updated.thrown
               /\ IF updated.thrown = ""
                  THEN /\ survived' = SurvivedAfterUpdate(board, board', survived)
                       /\ origin' = OriginAfterUpdate(board, board', origin)
                       /\ diedAfter' = DiedAfterStep(board, board', survived, diedAfter)
                       /\ op' = Op("update", 0, 0,
                                   IF AllDead(board) THEN "allDead" ELSE "")
                  ELSE \* board.draw() is not reached
                       /\ op' = Op("update", 0, 0, updated.thrown)
                       /\ UNCHANGED <<survived, origin, diedAfter>>
       ELSE /\ signal' = ""
            /\ UNCHANGED <<board, survived, origin, diedAfter, op>>
    /\ UNCHANGED <<chosen, running, nClicks>>

\* gameLoop, on a tick of the interval timer
GameLoop ==
    /\ gameLoop
    /\ UNCHANGED timerVars

\* clearBoard without the call of pause
ClearBoard_KeepsRunning ==
    /\ board' = clear(board)
    /\ survived' = NoSurvivals(board)
    /\ diedAfter' = DiedAfterStep(board, board', survived, diedAfter)
    /\ op' = Op("clearBoard", 0, 0, IF AllDead(board) THEN "allDead" ELSE "")
    /\ signal' = ""
    /\ UNCHANGED <<chosen, running, origin, nClicks>>
    /\ UNCHANGED timerVars

\* clearBoard: board.clear() then pause()
ClearBoard ==
    /\ board' = clear(board)
    /\ running' = FALSE
    /\ survived' = NoSurvivals(board)
    /\ diedAfter' = DiedAfterStep(board, board', survived, diedAfter)
    /\ op' = Op("clearBoard", 0, 0, IF AllDead(board) THEN "allDead" ELSE "")
    /\ signal' = ""
    /\ UNCHANGED <<chosen, origin, nClicks>>
    /\ UNCHANGED timerVars

\* createBoard with && for || in its size test
CreateBoard_RejectsOnlyBoth(width, height) ==
    /\ IF width < 1 /\ height < 1
       THEN /\ signal' = "alert"
            /\ UNCHANGED <<board, running, survived, origin, diedAfter, op>>
       ELSE /\ board' = Board(width, height)
            /\ signal' = ""
            /\ running' = FALSE
            /\ survived' = NoSurvivals(board')
            /\ origin' = NoOrigins(board')
            /\ diedAfter' = NoDeaths(board')
            /\ op' = Op("createBoard", 0, 0, "")
    /\ UNCHANGED <<chosen, nClicks>>
    /\ UNCHANGED timerVars

\* createBoard, with the rounded values of the width and height inputs
CreateBoard(width, height) ==
    /\ IF width < 1 \/ height < 1
       THEN \* the alert, and nothing changes
            /\ signal' = "alert"
            /\ UNCHANGED <<board, running, survived, origin, diedAfter, op>>
       ELSE /\ board' = Board(width, height)
            /\ signal' = ""
            /\ running' = FALSE
            /\ survived' = NoSurvivals(board')
            /\ origin' = NoOrigins(board')
            /\ diedAfter' = NoDeaths(board')
            /\ op' = Op("createBoard", 0, 0, "")
    /\ UNCHANGED <<chosen, nClicks>>
    /\ UNCHANGED timerVars

\* the number NaN, as a value that no rounded input of the model takes
NaN == -1

\* what the width and height inputs can hold: text that is a number, given
\* in halves (0, 0.5, 1, ...), and text that is not a number
InputValues ==
    [numeric : {TRUE}, halves : 0 .. 2 * MaxWidth - 1] \cup [numeric : {FALSE}, halves : {0}]

\* Math.round(value), with the conversion of the string to a number that the
\* call implies: halves are rounded up, text that is not a number gives NaN
MathRound(value) == IF value.numeric THEN (value.halves + 1) \div 2 ELSE NaN

\* a < b on numbers: false when either side is NaN
JsLess(a, b) == a # NaN /\ b # NaN /\ a < b

\* createBoard, from what the width and height inputs hold
CreateBoardFromInputs(widthValue, heightValue) ==
    LET width == MathRound(widthValue)
        height == MathRound(heightValue)
    IN  /\ IF JsLess(width, 1) \/ JsLess(height, 1)
           THEN \* the alert, and nothing changes
                /\ signal' = "alert"
                /\ UNCHANGED <<board, running, survived, origin, diedAfter, op>>
           ELSE /\ board' = Board(width, height)
                /\ signal' = ""
                /\ running' = FALSE
                /\ survived' = NoSurvivals(board')
                /\ origin' = NoOrigins(board')
                /\ diedAfter' = NoDeaths(board')
                /\ op' = Op("createBoard", 0, 0, "")
        /\ UNCHANGED <<chosen, nClicks>>
        /\ UNCHANGED timerVars

---------------------------------------------------------------------------
(* The interval timer *)

fps == 1

\* var speed = 1000/fps
speed == 1000 \div fps

\* what the fps slider can hold: numbers that divide 1000
FpsValues == {1, 2}

\* setInterval(gameLoop, delay) on the active timers ts: one more active
\* timer, under the handle the call returns
setInterval(ts, handle, delay) == ts \cup {[id |-> handle, delay |-> delay]}

\* clearInterval(handle) on the active timers ts
clearInterval(ts, handle) == {t \in ts : t.id # handle}

\* var interval = setInterval(gameLoop, speed)
InitTimers ==
    /\ interval = 1
    /\ timers = setInterval({}, 1, speed)
    /\ fired = {}

\* modSpeed without the call of clearInterval
modSpeed_KeepsOld(newSpeed) ==
    /\ interval < MaxTimers
    /\ interval' = interval + 1
    /\ timers' = setInterval(timers, interval + 1, newSpeed)
    /\ fired' = {}
    /\ signal' = ""
    /\ UNCHANGED <<board, chosen, running, survived, origin, diedAfter, nClicks, op>>

\* modSpeed(newSpeed): the handles the browser returns are increasing, the
\* new one is the next after the last, and the new timer's period begins
modSpeed(newSpeed) ==
    /\ interval < MaxTimers
    /\ interval' = interval + 1
    /\ timers' = setInterval(clearInterval(timers, interval), interval + 1, newSpeed)
    /\ fired' = {}
    /\ signal' = ""
    /\ UNCHANGED <<board, chosen, running, survived, origin, diedAfter, nClicks, op>>

\* the change handler of the fps slider
FpsChange(value) == modSpeed(1000 \div value)

\* the active timer t fires: it runs gameLoop once in a tick period
TimerFires(t) ==
    /\ t \in timers
    /\ t.id \notin fired
    /\ gameLoop
    /\ fired' = fired \cup {t.id}
    /\ UNCHANGED <<interval, timers>>

\* a tick period is over: every active timer may fire again
PeriodEnds ==
    /\ fired # {}
    /\ fired' = {}
    /\ UNCHANGED <<board, chosen, running, survived, origin, diedAfter, nClicks, op, signal,
                   interval, timers>>

---------------------------------------------------------------------------
(* The application: a board built by the UI, then any sequence of handlers *)

BoardSizes == {wh \in (1 .. MaxWidth) \X (1 .. MaxHeight) : wh[1] * wh[2] <= MaxCells}

Init ==
    /\ \E wh \in BoardSizes : board = Board(wh[1], wh[2])
    /\ chosen = 1
    /\ running = FALSE
    /\ survived = NoSurvivals(board)
    /\ origin = NoOrigins(board)
    /\ diedAfter = NoDeaths(board)
    /\ nClicks = 0
    /\ op = Op("init", 0, 0, "")
    /\ signal = ""
    /\ InitTimers

\* the handlers, with a mousedown inside the canvas and with board sizes
\* that createBoard accepts
Next ==
    \/ \E c \in DOMAIN board.cells : ClickCell(c[1], c[2])
    \/ \E i \in 1 .. Len(Palette) : ChooseColor(i)
    \/ TogglePlay
    \/ GameLoop
    \/ ClearBoard
    \/ \E wh \in BoardSizes : CreateBoard(wh[1], wh[2])

Spec == Init /\ [][Next]_vars

\* the start of the page in the variant that builds its first board in init,
\* from the rounded values of the width and height inputs, unchecked
InitPage ==
    /\ \E width \in 0 .. MaxWidth, height \in 0 .. MaxHeight :
          /\ width * height <= MaxCells
          /\ board = Board(width, height)
    /\ chosen = 1
    /\ running = FALSE
    /\ survived = NoSurvivals(board)
    /\ origin = NoOrigins(board)
    /\ diedAfter = NoDeaths(board)
    /\ nClicks = 0
    /\ op = Op("init", 0, 0, "")
    /\ signal = ""
    /\ InitTimers

SpecPage == InitPage /\ [][Next]_vars

\* the handlers, with a mousedown that may map to a position off the board
\* and with any values of the width and height inputs
NextInput ==
    \/ \E x \in -1 .. board.width, y \in -1 .. board.height : ClickCell(x, y)
    \/ \E i \in 1 .. Len(Palette) : ChooseColor(i)
    \/ TogglePlay
    \/ GameLoop
    \/ ClearBoard
    \/ \E wh \in ((0 .. MaxWidth) \X (0 .. MaxHeight)) :
           /\ wh[1] * wh[2] <= MaxCells
           /\ CreateBoard(wh[1], wh[2])


---------------------------------------------------------------------------
(* Seeded boards: the user has toggled a set of cells of a fresh board     *)
(* alive, each with a palette colour                                       *)

\* the seed colourings: uniform, stripes along x, stripes along y and
\* diagonal stripes, each starting from every palette colour
SeedColorings == 0 .. 4 * Len(Palette) - 1

\* the palette colour the seed colouring r gives the cell at (x, y)
SeedColor(r, x, y) ==
    Palette[(((r \div 4) + (r % 2) * x + ((r \div 2) % 2) * y) % Len(Palette)) + 1]

SeededBoard(width, height, alive, r) ==
    [Board(width, height) EXCEPT
        !.cells = [c \in Coords(width, height) |->
                      IF c \in alive THEN toggle(Cell, SeedColor(r, c[1], c[2])) ELSE Cell]]

SeededOrigins(b) == [c \in DOMAIN b.cells |-> IF b.cells[c].isAlive THEN "toggle" ELSE "none"]

\* the application from a board of at most MaxCells cells seeded in one
\* colour, paused, with SeedClicks cell toggles left
InitSeed ==
    /\ \E wh \in BoardSizes :
          \E alive \in SUBSET Coords(wh[1], wh[2]) :
              board = SeededBoard(wh[1], wh[2], alive, 0)
    /\ chosen = 1
    /\ running = FALSE
    /\ survived = NoSurvivals(board)
    /\ origin = SeededOrigins(board)
    /\ diedAfter = NoDeaths(board)
    /\ nClicks = MaxClicks - SeedClicks
    /\ op = Op("init", 0, 0, "")
    /\ signal = ""
    /\ InitTimers

SpecSeed == InitSeed /\ [][Next]_vars

\* the application from a seeded board, paused, with no cell toggle left:
\* clicks off the board and rejected board sizes are among the inputs
InitInput ==
    /\ \E wh \in BoardSizes :
          \E alive \in SUBSET Coords(wh[1], wh[2]) :
              board = SeededBoard(wh[1], wh[2], alive, 0)
    /\ chosen = 1
    /\ running = FALSE
    /\ survived = NoSurvivals(board)
    /\ origin = SeededOrigins(board)
    /\ diedAfter = NoDeaths(board)
    /\ nClicks = MaxClicks
    /\ op = Op("init", 0, 0, "")
    /\ signal = ""
    /\ InitTimers

SpecInput == InitInput /\ [][NextInput]_vars

GridSizes == {wh \in (1 .. MaxWidth) \X (1 .. MaxHeight) : wh[1] * wh[2] <= MaxGridCells}

\* the running simulation from a seeded board of at most MaxGridCells cells:
\* only the interval timer fires
InitGrid ==
    /\ \E wh \in GridSizes :
          \E alive \in SUBSET Coords(wh[1], wh[2]), r \in SeedColorings :
              board = SeededBoard(wh[1], wh[2], alive, r)
    /\ chosen = 1
    /\ running = TRUE
    /\ survived = NoSurvivals(board)
    /\ origin = SeededOrigins(board)
    /\ diedAfter = NoDeaths(board)
    /\ nClicks = MaxClicks
    /\ op = Op("init", 0, 0, "")
    /\ signal = ""
    /\ InitTimers

NextGrid == GameLoop

SpecGrid == InitGrid /\ [][NextGrid]_vars

\* the running simulation from a board of TickWidth x TickHeight cells, seeded
\* in one colour or in stripes along x
InitTick ==
    /\ \E alive \in SUBSET Coords(TickWidth, TickHeight), r \in 0 .. 1 :
          board = SeededBoard(TickWidth, TickHeight, alive, r)
    /\ chosen = 1
    /\ running = TRUE
    /\ survived = NoSurvivals(board)
    /\ origin = SeededOrigins(board)
    /\ diedAfter = NoDeaths(board)
    /\ nClicks = MaxClicks
    /\ op = Op("init", 0, 0, "")
    /\ signal = ""
    /\ InitTimers

\* the running simulation with an interval timer that keeps firing: a tick
\* that stays possible happens
SpecTick == InitTick /\ [][NextGrid]_vars /\ WF_vars(GameLoop)

\* the running simulation driven by the browser's timers, with the fps slider
NextTimer ==
    \/ \E t \in timers : TimerFires(t)
    \/ PeriodEnds
    \/ \E value \in FpsValues : FpsChange(value)

SpecTimer == InitTick /\ [][NextTimer]_vars

\* the blinker: a 5x5 board on which the user has toggled (1,2), (2,2) and
\* (3,2) alive, each with a palette colour, before starting the simulation
InitBlinker ==
    /\ \E k1 \in 1 .. Len(Palette), k2 \in 1 .. Len(Palette), k3 \in 1 .. Len(Palette) :
          board = [Board(5, 5) EXCEPT
                      !.cells[<<1, 2>>] = toggle(Cell, Palette[k1]),
                      !.cells[<<2, 2>>] = toggle(Cell, Palette[k2]),
                      !.cells[<<3, 2>>] = toggle(Cell, Palette[k3])]
    /\ chosen = 1
    /\ running = FALSE
    /\ survived = NoSurvivals(board)
    /\ origin = SeededOrigins(board)
    /\ diedAfter = NoDeaths(board)
    /\ nClicks = 3
    /\ op = Op("init", 0, 0, "")
    /\ signal = ""
    /\ InitTimers

\* the simulation is started, paused and resumed, a palette colour is picked,
\* and the interval timer fires
NextBlinker ==
    \/ \E i \in 1 .. Len(Palette) : ChooseColor(i)
    \/ TogglePlay
    \/ GameLoop

SpecBlinker == InitBlinker /\ [][NextBlinker]_vars

\* the handlers on one board, with a chooseColor whose id may name no element
NextPalette ==
    \/ \E c \in DOMAIN board.cells : ClickCell(c[1], c[2])
    \/ \E i \in 0 .. Len(Palette) : ChooseColor(i)
    \/ TogglePlay
    \/ GameLoop
    \/ ClearBoard

SpecPalette == Init /\ [][NextPalette]_vars

\* the handlers, with a createBoard that reads whatever the inputs hold
NextForm ==
    \/ \E c \in DOMAIN board.cells : ClickCell(c[1], c[2])
    \/ \E i \in 1 .. Len(Palette) : ChooseColor(i)
    \/ TogglePlay
    \/ GameLoop
    \/ ClearBoard
    \/ \E widthValue \in InputValues, heightValue \in InputValues :
           /\ Cardinality(Coords(MathRound(widthValue), MathRound(heightValue))) <= MaxCells
           /\ CreateBoardFromInputs(widthValue, heightValue)

SpecForm == Init /\ [][NextForm]_vars

---------------------------------------------------------------------------
(* The rules the program is checked against, stated on positions and sets  *)
(* rather than on the program's scan                                       *)

Abs(n) == IF n < 0 THEN -n ELSE n

\* the positions of board b adjacent to position c
Adjacent(b, c) ==
    {d \in DOMAIN b.cells : d # c /\ Abs(d[1] - c[1]) <= 1 /\ Abs(d[2] - c[2]) <= 1}

\* the living cells of board b adjacent to position c
LivingAround(b, c) == {d \in Adjacent(b, c) : b.cells[d].isAlive}

\* the rule of the game: alive next generation
RuleAlive(isAlive, n) == IF isAlive THEN n \in {2, 3} ELSE n = 3

\* left, top-left, top, top-right, right, bottom-right, bottom, bottom-left
Clockwise ==
    << <<-1, 0>>, <<-1, -1>>, <<0, -1>>, <<1, -1>>, <<1, 0>>, <<1, 1>>, <<0, 1>>, <<-1, 1>> >>

\* the living neighbours of c on board b, clockwise from the left
Parents(b, c) ==
    LET around == [i \in 1 .. 8 |-> <<c[1] + Clockwise[i][1], c[2] + Clockwise[i][2]>>]
        Lives(d) == d \in DOMAIN b.cells /\ b.cells[d].isAlive
    IN  SelectSeq(around, Lives)

Red(color) == SubSeq(color, 2, 3)
Green(color) == SubSeq(color, 4, 5)
Blue(color) == SubSeq(color, 6, 7)

\* the step is a gameLoop tick that ran update
UpdateStep == op'.name = "update" /\ running /\ running' /\ chosen' = chosen /\ nClicks' = nClicks

\* the step is a click that toggled a cell
ToggleStep == op'.name = "clickCell" /\ nClicks' = nClicks + 1

\* the step is a clearBoard
ClearStep == op'.name = "clearBoard" /\ ~running' /\ chosen' = chosen /\ nClicks' = nClicks

\* the step is a createBoard that installed a board
CreateStep == op'.name = "createBoard" /\ ~running' /\ chosen' = chosen /\ nClicks' = nClicks

\* the cells that the step turns from dead to alive
BornInStep == {c \in DOMAIN board.cells : ~board.cells[c].isAlive /\ board'.cells[c].isAlive}

\* the cells that an update, the last handler to write to the board, brought to life
JustBorn ==
    {c \in DOMAIN board.cells :
        op.name = "update" /\ board.cells[c].isAlive /\ survived[c] = 0 /\ origin[c] = "rule"}

IsCorner(b, c) == c[1] \in {0, b.width - 1} /\ c[2] \in {0, b.height - 1}
IsEdge(b, c) == c[1] \in {0, b.width - 1} \/ c[2] \in {0, b.height - 1}

---------------------------------------------------------------------------
(* C1: after an update a cell is alive exactly when, in the grid before    *)
(* the update, it was alive with 2 or 3 living neighbours or dead with     *)
(* exactly 3; the decision depends on the pre-update alive statuses only.  *)
C1_RuleOfLife ==
    [][UpdateStep =>
          \A c \in DOMAIN board.cells :
              board'.cells[c].isAlive =
                  RuleAlive(board.cells[c].isAlive, Cardinality(LivingAround(board, c)))]_vars

\* an update after which a cell has been born, one has survived and a cell
\* that lived before is dead
C1_Witness ==
    /\ JustBorn # {}
    /\ \E c \in DOMAIN board.cells : board.cells[c].isAlive /\ survived[c] > 0
    /\ \E c \in DOMAIN board.cells : ~board.cells[c].isAlive /\ origin[c] # "none"

(* C2: getLivingNeighbors(x, y) returns the number of alive cells among    *)
(* the adjacent positions inside the grid; it is in 0..8, every position   *)
(* read is inside the grid, a corner cell counts at most 3 and an edge     *)
(* cell at most 5.                                                         *)
C2_NeighborCount ==
    \A c \in DOMAIN board.cells :
        LET count == getLivingNeighbors(board, c[1], c[2]).count
            reads == NeighborReads(board, c[1], c[2])
        IN  /\ count = Cardinality(LivingAround(board, c))
            /\ count \in 0 .. 8
            /\ \A i \in 1 .. Len(reads) : reads[i] \in DOMAIN board.cells
            /\ IsCorner(board, c) => count <= 3
            /\ IsEdge(board, c) => count <= 5

\* a board with a cell that has 8 living neighbours, a corner cell that has 3
\* and an edge cell that has 5
C2_Witness ==
    /\ \E c \in DOMAIN board.cells : getLivingNeighbors(board, c[1], c[2]).count = 8
    /\ \E c \in DOMAIN board.cells :
          IsCorner(board, c) /\ getLivingNeighbors(board, c[1], c[2]).count = 3
    /\ \E c \in DOMAIN board.cells :
          /\ IsEdge(board, c) /\ ~IsCorner(board, c)
          /\ getLivingNeighbors(board, c[1], c[2]).count = 5

(* C3: a cell that an update turns from dead to alive gets the red channel *)
(* of the first, the green channel of the second and the blue channel of   *)
(* the third of its living neighbours, taken clockwise from the left, with *)
(* the colours the neighbours had before the update.                       *)
C3_Inheritance ==
    [][UpdateStep =>
          \A c \in BornInStep :
              LET parents == Parents(board, c)
              IN  /\ Len(parents) >= 3
                  /\ board'.cells[c].color =
                         <<"#">> \o Red(board.cells[parents[1]].color)
                                 \o Green(board.cells[parents[2]].color)
                                 \o Blue(board.cells[parents[3]].color)]_vars

\* an update has brought to life a cell whose green channel comes from a
\* parent of another colour than the parents that gave red and blue
C3_Witness ==
    \E c \in JustBorn :
        LET color == board.cells[c].color
        IN  /\ Len(color) = 7
            /\ color[2] # color[4] /\ color[4] # color[6]

(* C4: for a cell being born, the red value of the new colour comes from a *)
(* parent with the smallest x-coordinate of the three and the blue value   *)
(* from a parent with the largest x-coordinate of the three.               *)
C4_LeftMostRightMost ==
    [][UpdateStep =>
          \A c \in BornInStep :
              LET parents == LivingAround(board, c)
                  LeftMost(p) == \A q \in parents : p[1] <= q[1]
                  RightMost(p) == \A q \in parents : p[1] >= q[1]
              IN  /\ \E p \in parents :
                        /\ LeftMost(p)
                        /\ Red(board'.cells[c].color) = Red(board.cells[p].color)
                  /\ \E p \in parents :
                        /\ RightMost(p)
                        /\ Blue(board'.cells[c].color) = Blue(board.cells[p].color)]_vars

(* C5: every cell's maturity lies in [0.1, 1.0] in every reachable state,  *)
(* and a living cell whose maturity is 1.0 keeps exactly 1.0 through every *)
(* update it survives.                                                     *)
C5_MaturityInRange ==
    [][/\ \A c \in DOMAIN board'.cells :
              /\ ~DblLess(board'.cells[c].maturity, Tenth)
              /\ ~DblLess(One, board'.cells[c].maturity)
       /\ UpdateStep =>
              \A c \in DOMAIN board.cells :
                  (/\ board.cells[c].isAlive /\ board'.cells[c].isAlive
                   /\ board.cells[c].maturity = One)
                      => board'.cells[c].maturity = One]_vars

\* the exact product n * a of a multiple of 2^-56 by a natural number
RECURSIVE ExactMulNat(_, _)
ExactMulNat(a, n) == IF n = 0 THEN <<0, 0>> ELSE ExactAdd(a, ExactMulNat(a, n - 1))

\* min(1.0, 0.1 + 0.1 * n) in double arithmetic
ExpectedMaturity(n) ==
    LET sum == DblAdd(Tenth, RoundToDouble(ExactMulNat(Tenth, n)))
    IN  IF DblLess(One, sum) THEN One ELSE sum

(* C6: a living cell that has survived N updates since it was born,        *)
(* 0 <= N <= 9, has maturity min(1.0, 0.1 + 0.1 * N) exactly.              *)
C6_MaturityAfterN ==
    \A c \in DOMAIN board.cells :
        (board.cells[c].isAlive /\ survived[c] <= 9)
            => board.cells[c].maturity = ExpectedMaturity(survived[c])

(* C7: every dead cell has maturity exactly 0.1, whatever killed it: the   *)
(* rule in an update, a toggle with its own colour, or clear.              *)
C7_DeadCellsAreReset ==
    \A c \in DOMAIN board.cells :
        ~board.cells[c].isAlive => board.cells[c].maturity = Tenth

\* a dead cell that had survived an update, and so had matured, when it died
C7_Witness ==
    \E c \in DOMAIN board.cells :
        ~board.cells[c].isAlive /\ diedAfter[c] >= 1 /\ board.cells[c].maturity = Tenth

(* C8: whenever a cell goes from dead to alive, by a toggle or by the rule *)
(* in an update, its maturity is exactly 0.1 right after the transition.   *)
C8_BornWithTenth ==
    [][\A c \in DOMAIN board.cells \cap DOMAIN board'.cells :
           ((UpdateStep \/ ToggleStep) /\ c \in BornInStep)
               => board'.cells[c].maturity = Tenth]_vars

\* an update has brought back to life a cell that had matured in an earlier life
C8_Witness ==
    \E c \in JustBorn : diedAfter[c] >= 1 /\ board.cells[c].maturity = Tenth

(* C9: toggling a living cell while the palette colour equals the cell's   *)
(* colour kills it: afterwards it is dead with maturity 0.1; also when the *)
(* cell's colour was inherited.                                            *)
C9_ToggleOwnColourKills ==
    [][ToggleStep =>
          LET c == <<op'.x, op'.y>>
          IN  (board.cells[c].isAlive /\ board.cells[c].color = Palette[chosen])
                  => /\ ~board'.cells[c].isAlive
                     /\ board'.cells[c].maturity = Tenth]_vars

\* the last toggle killed a cell that the rule had brought to life, with an
\* inherited colour, and that had matured since
C9_Witness ==
    /\ op.name = "clickCell" /\ op.branch = "kill"
    /\ LET c == <<op.x, op.y>>
       IN  /\ ~board.cells[c].isAlive
           /\ origin[c] = "rule"
           /\ diedAfter[c] >= 1
           /\ board.cells[c].color = Palette[chosen]

(* C10: toggling a living cell with a palette colour other than its own    *)
(* leaves it alive with the same maturity and gives it the palette colour. *)
C10_ToggleOtherColourRecolours ==
    [][ToggleStep =>
          LET c == <<op'.x, op'.y>>
          IN  (board.cells[c].isAlive /\ board.cells[c].color # Palette[chosen])
                  => /\ board'.cells[c].isAlive
                     /\ board'.cells[c].maturity = board.cells[c].maturity
                     /\ board'.cells[c].color = Palette[chosen]]_vars

\* the last toggle recoloured a cell that had matured
C10_Witness ==
    /\ op.name = "clickCell" /\ op.branch = "recolor"
    /\ LET c == <<op.x, op.y>>
       IN  /\ board.cells[c].isAlive
           /\ survived[c] >= 1
           /\ DblLess(Tenth, board.cells[c].maturity)
           /\ board.cells[c].color = Palette[chosen]

---------------------------------------------------------------------------
\* the board as the first loop of update leaves it, before the second loop
AfterPassOne(b) == FindNextFrom(b, VisitOrder(b), 1).board

(* C11, as claimed: during pass 1 of update no cell's state is modified:   *)
(* the alive flag, the colour and the maturity of every cell are the same  *)
(* at the end of pass 1 as at its start; only next is written.             *)
C11_PassOneWritesNextOnly ==
    [][UpdateStep => AfterPassOne(board).cells = board.cells]_vars

(* C11, amended: during pass 1 of update no cell's alive flag or maturity  *)
(* is modified and no living cell's colour is; the only cells whose colour *)
(* pass 1 changes are dead cells with exactly 3 living neighbours.         *)
C11_PassOneWritesBirthColoursOnly ==
    [][UpdateStep =>
          \A staged \in {AfterPassOne(board)}, c \in DOMAIN board.cells :
              LET before == board.cells[c]
                  after == staged.cells[c]
              IN  /\ after.isAlive = before.isAlive
                  /\ after.maturity = before.maturity
                  /\ after.color # before.color
                        => /\ ~before.isAlive
                           /\ Cardinality(LivingAround(board, c)) = 3]_vars

\* an update has run, and on the board it left pass 1 of the next update
\* changes the colour of a dead cell and leaves a living cell with 3 living
\* neighbours as it is
C11_Witness ==
    /\ op.name = "update" /\ running
    /\ \E c \in DOMAIN board.cells :
          AfterPassOne(board).cells[c].color # board.cells[c].color
    /\ \E c \in DOMAIN board.cells :
          /\ board.cells[c].isAlive
          /\ Cardinality(LivingAround(board, c)) = 3
          /\ BuildColor(board, aliveNeighbors(board, c[1], c[2]), 0, 3, <<"#">>)
                 # board.cells[c].color

(* C12: no cell is rendered between the start of pass 1 and the end of     *)
(* pass 2 of an update: every Cell.draw happens before update starts or    *)
(* after update has applied the staged state to all cells.                 *)
C12_NoDrawInsideUpdate ==
    [][UpdateStep =>
          \A staged \in {AfterPassOne(board)} :
              \A k \in DrawsInApplyNext(staged) : PendingAfter(staged, k) = {}]_vars

(* C13: update applied to a grid in which every cell is dead leaves every  *)
(* cell dead and every cell's colour and maturity unchanged, for every     *)
(* grid size; so after clear any number of updates yields the same grid.   *)
C13_AllDeadStaysAllDead ==
    [][(UpdateStep /\ AllDead(board)) => board'.cells = board.cells]_vars

\* an update has run on a grid of several cells in which every cell was dead
\* and a cell that had lived kept a palette or inherited colour
C13_Witness ==
    /\ op.name = "update" /\ op.branch = "allDead"
    /\ AllDead(board)
    /\ Cardinality(DOMAIN board.cells) > 1
    /\ \E c \in DOMAIN board.cells :
          diedAfter[c] >= 0 /\ board.cells[c].color # DefaultColor

(* C14: from any reachable state, after Board.clear every cell of the grid *)
(* is dead with maturity 0.1, and each cell's colour is the one it had     *)
(* before the clear.                                                       *)
C14_ClearKillsEveryCell ==
    [][ClearStep =>
          /\ DOMAIN board'.cells = DOMAIN board.cells
          /\ \A c \in DOMAIN board.cells :
                /\ ~board'.cells[c].isAlive
                /\ board'.cells[c].maturity = Tenth
                /\ board'.cells[c].color = board.cells[c].color]_vars

\* the last handler to write to the board was a clearBoard that found living
\* cells, one of them matured and in the last column, and a cell has kept a
\* colour it inherited
C14_Witness ==
    /\ op.name = "clearBoard" /\ op.branch = ""
    /\ AllDead(board)
    /\ \E c \in DOMAIN board.cells : c[1] = board.width - 1 /\ diedAfter[c] >= 1
    /\ \E c \in DOMAIN board.cells :
          origin[c] = "rule" /\ board.cells[c].color \notin {DefaultColor, Palette[1]}

(* C15: on a 1x1 board the single cell always has 0 living neighbours, so  *)
(* after every update it is dead, whether it was alive or dead before.     *)
C15_SingleCellDies ==
    [][(UpdateStep /\ board.width = 1 /\ board.height = 1) =>
          /\ getLivingNeighbors(board, 0, 0).count = 0
          /\ ~board'.cells[<<0, 0>>].isAlive]_vars

\* an update has killed the cell of a 1x1 board that had been toggled alive
C15_Witness ==
    /\ op.name = "update" /\ op.branch = ""
    /\ board.width = 1 /\ board.height = 1
    /\ ~board.cells[<<0, 0>>].isAlive
    /\ origin[<<0, 0>>] = "toggle" /\ diedAfter[<<0, 0>>] = 0

\* the positions of the living cells of board b
AliveSet(b) == {c \in DOMAIN b.cells : b.cells[c].isAlive}

Horizontal == {<<1, 2>>, <<2, 2>>, <<3, 2>>}
Vertical == {<<2, 1>>, <<2, 2>>, <<2, 3>>}

(* C16: from the 5x5 board with (1,2), (2,2), (3,2) toggled alive in any   *)
(* colours, the alive set is {(2,1),(2,2),(2,3)} after one update, back to *)
(* {(1,2),(2,2),(3,2)} after a second, and alternates with period 2 under  *)
(* further updates.                                                        *)
C16_Blinker ==
    [][UpdateStep =>
          \/ AliveSet(board) = Horizontal /\ AliveSet(board') = Vertical
          \/ AliveSet(board) = Vertical /\ AliveSet(board') = Horizontal]_vars

\* the blinker is horizontal again after at least two updates; its ends were
\* born again, and one of them with a colour mixed from seeds of two colours
C16_Witness ==
    /\ op.name = "update"
    /\ AliveSet(board) = Horizontal
    /\ survived[<<2, 2>>] >= 2
    /\ origin[<<1, 2>>] = "rule" /\ origin[<<3, 2>>] = "rule"
    /\ \A i \in 1 .. Len(Palette) : board.cells[<<1, 2>>].color # Palette[i]

\* the position (x, y) is off board b
OffBoard(b, x, y) == x < 0 \/ x >= b.width \/ y < 0 \/ y >= b.height

(* C17: clickCell(x, y) with x outside [0, W) or y outside [0, H) signals  *)
(* an error and is never clamped or wrapped onto a cell of the board: no   *)
(* cell's alive flag, colour or maturity changes.                          *)
C17_OffBoardClickThrows ==
    [][\A x \in -1 .. board.width, y \in -1 .. board.height :
           (OffBoard(board, x, y) /\ ClickCell(x, y))
               => /\ signal' = "TypeError"
                  /\ board'.cells = board.cells]_vars

\* a click off the board has thrown while the board had a living cell that
\* the rule brought to life and a living cell that has matured
C17_Witness ==
    /\ signal = "TypeError"
    /\ \E c \in DOMAIN board.cells : board.cells[c].isAlive /\ origin[c] = "rule"
    /\ \E c \in DOMAIN board.cells : board.cells[c].isAlive /\ survived[c] >= 1

(* C18: constructing a Board with width < 1 or height < 1 signals an       *)
(* invalid-argument error and never produces a degenerate grid: the board  *)
(* in use always has a width and a height of at least 1 and has cells.     *)
C18_NoDegenerateBoard ==
    /\ board.width >= 1
    /\ board.height >= 1
    /\ DOMAIN board.cells # {}

\* b is a grid of exactly width * height cells at the positions
\* [0, width) x [0, height), all dead with the default colour and maturity
\* 0.1, with a staging buffer that is false everywhere
IsFreshGrid(b, width, height) ==
    /\ b.width = width /\ b.height = height
    /\ Cardinality(DOMAIN b.cells) = width * height
    /\ \A c \in DOMAIN b.cells :
          /\ c[1] >= 0 /\ c[1] < width /\ c[2] >= 0 /\ c[2] < height
          /\ ~b.cells[c].isAlive
          /\ b.cells[c].color = <<"#", "0", "0", "0", "0", "0", "0">>
          /\ b.cells[c].maturity = Tenth
    /\ DOMAIN b.next = DOMAIN b.cells
    /\ \A c \in DOMAIN b.next : b.next[c] = FALSE

(* C19: immediately after new Board(W, H) with W, H >= 1 the grid has      *)
(* exactly W * H cells, every cell is dead with colour '#000000' and       *)
(* maturity 0.1, and every entry of the staging buffer next is false.      *)
C19_NewBoardIsFresh ==
    [][CreateStep =>
          \A wh \in BoardSizes :
              CreateBoard(wh[1], wh[2]) => IsFreshGrid(board', wh[1], wh[2])]_vars

\* createBoard has replaced an edited board by a new one that is not square
C19_Witness ==
    /\ op.name = "createBoard"
    /\ nClicks >= 1
    /\ board.width # board.height
    /\ IsFreshGrid(board, board.width, board.height)

(* C20: kill is idempotent: from any cell state one kill and two kills in  *)
(* a row produce the same cell state, alive = false and maturity = 0.1,    *)
(* and kill never changes the cell's colour.                               *)
C20_KillIsIdempotent ==
    \A c \in DOMAIN board.cells :
        LET cell == board.cells[c]
        IN  /\ kill(kill(cell)) = kill(cell)
            /\ ~kill(cell).isAlive
            /\ kill(cell).maturity = Tenth
            /\ kill(cell).color = cell.color

\* clearBoard has killed every cell of a board on which every cell was dead
\* already: a cell that an earlier kill took after it had matured, and a
\* cell with an inherited colour, have been killed a second time
C20_Witness ==
    /\ op.name = "clearBoard" /\ op.branch = "allDead"
    /\ \E c \in DOMAIN board.cells :
          /\ diedAfter[c] >= 1
          /\ kill(board.cells[c]) = board.cells[c]
    /\ \E c \in DOMAIN board.cells :
          origin[c] = "rule" /\ board.cells[c].color # DefaultColor

(* C21: during an update a cell's colour changes only if the cell is born  *)
(* in that update: a cell that survives keeps its colour, a cell that dies *)
(* keeps its colour, and a dead cell that stays dead has its alive flag,   *)
(* colour and maturity all unchanged.                                      *)
C21_ColourChangesOnlyAtBirth ==
    [][UpdateStep =>
          \A c \in DOMAIN board.cells :
              /\ board'.cells[c].color # board.cells[c].color => c \in BornInStep
              /\ (~board.cells[c].isAlive /\ ~board'.cells[c].isAlive)
                    => board'.cells[c] = board.cells[c]]_vars

\* an update has left a cell that died in it with its palette colour, a
\* survivor with its palette colour, a dead cell that never lived with the
\* default colour, and has given a cell born in it a colour of its own
C21_Witness ==
    /\ op.name = "update"
    /\ \E c \in DOMAIN board.cells, i \in 1 .. Len(Palette) :
          /\ ~board.cells[c].isAlive /\ diedAfter[c] >= 0
          /\ board.cells[c].color = Palette[i]
    /\ \E c \in DOMAIN board.cells, i \in 1 .. Len(Palette) :
          /\ board.cells[c].isAlive /\ survived[c] >= 1
          /\ board.cells[c].color = Palette[i]
    /\ \E c \in DOMAIN board.cells :
          origin[c] = "none" /\ board.cells[c].color = DefaultColor
    /\ \E c \in JustBorn : \A i \in 1 .. Len(Palette) : board.cells[c].color # Palette[i]

(* C22: update is total: from every state reached by clicks with whatever  *)
(* colour the palette returns (no colour chosen included), clears and       *)
(* updates on a board with width and height >= 1, update completes without *)
(* raising an error.                                                       *)
C22_UpdateIsTotal == op.name = "update" => op.branch # "TypeError"

(* C23: a click on an in-range cell touches only that cell: the alive flag, *)
(* colour and maturity of every other cell and the whole staging buffer    *)
(* next are unchanged, and the effect is in the grid the next update reads: *)
(* the neighbour query of every adjacent cell counts the clicked cell as   *)
(* the click left it.                                                      *)
C23_ClickTouchesOnlyTarget ==
    [][ToggleStep =>
          \A c \in {<<op'.x, op'.y>>} :
              /\ board' = [board EXCEPT !.cells[c] = board'.cells[c]]
              /\ board'.cells[c] # board.cells[c]
              /\ \A d \in Adjacent(board, c) :
                    getLivingNeighbors(board', d[1], d[2]).count
                        - getLivingNeighbors(board, d[1], d[2]).count
                    = IF board'.cells[c].isAlive = board.cells[c].isAlive THEN 0
                      ELSE IF board'.cells[c].isAlive THEN 1 ELSE -1]_vars

\* a click, after an update, on a cell with living neighbours: the staging
\* buffer still holds what the update staged for the cell
C23_Witness ==
    /\ op.name = "clickCell"
    /\ board.next[<<op.x, op.y>>] # board.cells[<<op.x, op.y>>].isAlive
    /\ \E d \in DOMAIN board.cells : board.next[d] /\ board.cells[d].isAlive
    /\ LivingAround(board, <<op.x, op.y>>) # {}

(* C24: every cell that pass 2 of an update turns from dead to alive had   *)
(* exactly 3 living neighbours in the grid before the update, and its      *)
(* colour was rebuilt from those three neighbours in the same update; the  *)
(* colour loop never runs for a cell whose neighbour count is not 3: the   *)
(* first loop leaves the colour of every such cell as it was.              *)
C24_BirthHasThreeParents ==
    [][UpdateStep =>
          \A staged \in {AfterPassOne(board)} :
              /\ \A c \in BornInStep :
                    /\ Cardinality(LivingAround(board, c)) = 3
                    /\ Len(board'.cells[c].color) = 7
                    /\ \A i \in 1 .. 3 :
                          SubSeq(board'.cells[c].color, 2 * i, 2 * i + 1) =
                          SubSeq(board.cells[Parents(board, c)[i]].color, 2 * i, 2 * i + 1)
              /\ \A c \in DOMAIN board.cells :
                    staged.cells[c].color # board.cells[c].color
                        => Cardinality(LivingAround(board, c)) = 3]_vars

\* an update has brought a cell to life with a colour mixed from parents of
\* both palette colours, has killed another cell, and has left a cell dead
\* that never lived
C24_Witness ==
    /\ op.name = "update"
    /\ \E c \in JustBorn :
          /\ Red(board.cells[c].color) # Red(Palette[1])
          /\ Blue(board.cells[c].color) # Blue(Palette[2])
    /\ \E c \in DOMAIN board.cells : diedAfter[c] >= 0 /\ ~board.cells[c].isAlive
    /\ \E c \in DOMAIN board.cells : origin[c] = "none"

\* orders in which the cells of board b can be visited: the order of update's
\* loops, y outer and x inner, and both backwards
VisitOrders(b) ==
    LET n == b.width * b.height
        yOuter == [k \in 1 .. n |-> <<(k - 1) % b.width, (k - 1) \div b.width>>]
    IN  {VisitOrder(b), yOuter,
         [k \in 1 .. n |-> VisitOrder(b)[n + 1 - k]],
         [k \in 1 .. n |-> yOuter[n + 1 - k]]}

\* the second loop of update run one cell at a time in the given order, from
\* the k-th cell on
RECURSIVE ApplyNextInOrder(_, _, _)
ApplyNextInOrder(b, order, k) ==
    IF k > Len(order) THEN b
    ELSE ApplyNextInOrder([b EXCEPT !.cells[order[k]] =
                                ApplyNextCell(b.cells[order[k]], b.next[order[k]])],
                          order, k + 1)

(* C25: the result of update does not depend on the order in which the     *)
(* cells are visited in pass 1 or in pass 2: every visiting order stages   *)
(* the same board in pass 1 and applies it to the same grid in pass 2, and *)
(* the cells whose colour pass 1 writes are dead cells, none of them among *)
(* the living neighbours whose colour pass 1 reads.                        *)
C25_OrderIndependent ==
    [][UpdateStep =>
          \A staged \in {AfterPassOne(board)} :
              /\ \A order \in VisitOrders(board) :
                    /\ FindNextFrom(board, order, 1).board = staged
                    /\ ApplyNextInOrder(staged, order, 1).cells = board'.cells
              /\ \A c \in DOMAIN board.cells :
                    staged.cells[c].color # board.cells[c].color
                        => \A d \in DOMAIN board.cells : c \notin LivingAround(board, d)]_vars

\* an update has brought two adjacent cells to life, each with a colour of
\* its own, and has killed a cell next to one of them
C25_Witness ==
    /\ op.name = "update"
    /\ \E c \in JustBorn, d \in JustBorn :
          /\ d \in Adjacent(board, c)
          /\ board.cells[c].color # board.cells[d].color
          /\ \E e \in Adjacent(board, c) : ~board.cells[e].isAlive /\ diedAfter[e] >= 0

\* contents the staging buffer of board b could hold instead of its own:
\* all false, all true, and each entry the opposite of what it holds
OtherBuffers(b) ==
    {[c \in DOMAIN b.cells |-> FALSE], [c \in DOMAIN b.cells |-> TRUE],
     [c \in DOMAIN b.cells |-> ~b.next[c]]}

(* C26: the staging buffer is write-before-read: what next holds when an   *)
(* update starts (stale after clicks or a clear) has no influence on the   *)
(* grid the update leaves, and when the update returns next[x][y] equals   *)
(* cells[x][y].isAlive for every cell.                                     *)
C26_NextIsWrittenBeforeRead ==
    [][UpdateStep =>
          /\ \A c \in DOMAIN board.cells : board'.next[c] = board'.cells[c].isAlive
          /\ \A buffer \in OtherBuffers(board) :
                update([board EXCEPT !.next = buffer]).board = board']_vars

\* on a 2x2 board, an update has brought back to life a cell that the user
\* had killed since the update before it: its three neighbours have lived
\* through both updates, so the buffer held true for the cell while it was dead
C26_Witness ==
    /\ op.name = "update"
    /\ board.width = 2 /\ board.height = 2
    /\ \E c \in JustBorn :
          /\ diedAfter[c] >= 1
          /\ \A d \in Adjacent(board, c) : board.cells[d].isAlive /\ survived[d] >= 2

(* C27: in each update the neighbour query getLivingNeighbors(x, y) is     *)
(* executed exactly once for every cell, whatever the cell's state and     *)
(* neighbour count.                                                        *)
C27_OneQueryPerCell ==
    [][UpdateStep =>
          \A c \in DOMAIN board.cells : QueriesInFindNextCell(board, c[1], c[2]) = 1]_vars

(* C28: a timer tick while running is false changes nothing in the grid:   *)
(* update is invoked only on ticks at which running is true, so while      *)
(* paused the grid changes only through clickCell, clearBoard or           *)
(* createBoard.                                                            *)
C28_PausedTickChangesNothing ==
    [][/\ (~running /\ GameLoop) => board' = board
       /\ (~running /\ board' # board) =>
             \/ \E c \in DOMAIN board.cells : ClickCell(c[1], c[2])
             \/ ClearBoard
             \/ \E wh \in BoardSizes : CreateBoard(wh[1], wh[2])]_vars

\* the simulation is paused on a board that an update would change, with a
\* cell that has lived and died and a living cell, right after a click
C28_Witness ==
    /\ ~running
    /\ op.name = "clickCell"
    /\ \E c \in DOMAIN board.cells : diedAfter[c] >= 0 /\ ~board.cells[c].isAlive
    /\ \E c \in DOMAIN board.cells : board.cells[c].isAlive
    /\ update(board).board.cells # board.cells

(* C29: after clearBoard and after a createBoard that installs a board,    *)
(* running is false and every cell of the current board is dead; no        *)
(* generation is computed until togglePlay is invoked again: running turns *)
(* true only in a togglePlay, and the board a paused step leaves is never  *)
(* the work of update.                                                     *)
C29_ClearAndCreatePause ==
    [][/\ (op'.name = "clearBoard" /\ ClearBoard) => (~running' /\ AllDead(board'))
       /\ op'.name = "createBoard" =>
             \A wh \in BoardSizes :
                 CreateBoard(wh[1], wh[2]) => (~running' /\ AllDead(board'))
       /\ (~running /\ running') => TogglePlay
       /\ (~running /\ board' # board) => op'.name # "update"]_vars

\* a clearBoard has stopped a simulation that had brought a cell to life
C29_Witness ==
    /\ op.name = "clearBoard" /\ op.branch = ""
    /\ ~running
    /\ AllDead(board)
    /\ \E c \in DOMAIN board.cells : origin[c] = "rule" /\ diedAfter[c] >= 0

\* the sizes createBoard can be asked for with a width or a height below 1
RejectedSizes == {wh \in (0 .. MaxWidth) \X (0 .. MaxHeight) : wh[1] < 1 \/ wh[2] < 1}

C31_BoardHasCells ==
    /\ board.width # NaN /\ board.width >= 1
    /\ board.height # NaN /\ board.height >= 1

\* the board of the basic variant with the alive pattern of board b
BasicBoardOf(b) ==
    [width |-> b.width, height |-> b.height,
     cells |-> [c \in DOMAIN b.cells |-> [isAlive |-> b.cells[c].isAlive]],
     next |-> b.next]

(* C32: the update with colours and maturities and the update of the basic *)
(* variant compute the same evolution of the alive pattern: from the same  *)
(* alive pattern, whatever the colours and maturities, one generation of   *)
(* each gives the same alive pattern (hence so does any number of          *)
(* generations), and the two getLivingNeighbors return the same count for  *)
(* every cell.                                                             *)
C32_SameEvolutionAsBasic ==
    [][UpdateStep =>
          \A basic \in {BasicBoardOf(board)} :
              /\ BasicUpdate(basic) = BasicBoardOf(board')
              /\ \A c \in DOMAIN board.cells :
                    BasicGetLivingNeighbors(basic, c[1], c[2])
                        = getLivingNeighbors(board, c[1], c[2]).count]_vars

\* on a 3x3 board the third update in a row has brought a cell to life,
\* has killed a cell and has matured a cell that carries an inherited colour
C32_Witness ==
    /\ op.name = "update"
    /\ board.width = 3 /\ board.height = 3
    /\ JustBorn # {}
    /\ \E c \in DOMAIN board.cells : ~board.cells[c].isAlive /\ diedAfter[c] >= 1
    /\ \E c \in DOMAIN board.cells :
          /\ board.cells[c].isAlive /\ origin[c] = "rule" /\ survived[c] >= 2
          /\ \A i \in 1 .. Len(Palette) : board.cells[c].color # Palette[i]

\* the cell at position c of the board in use is alive
AliveAt(c) == c \in DOMAIN board.cells /\ board.cells[c].isAlive

C34_OneIntervalTimer ==
    /\ Cardinality(timers) = 1
    /\ \A t \in timers : t.id = interval
    /\ Cardinality(fired) <= 1

\* the speed was changed twice, to different delays, and the one timer has
\* fired and updated the board
C34_Witness ==
    /\ interval = 3
    /\ \E t \in timers : t.delay # speed
    /\ fired = {interval}
    /\ op.name = "update"
    /\ \E c \in DOMAIN board.cells : survived[c] >= 3


HexDigits ==
    {"0", "1", "2", "3", "4", "5", "6", "7", "8", "9",
     "a", "b", "c", "d", "e", "f", "A", "B", "C", "D", "E", "F"}

\* color is a string '#RRGGBB'
IsHexColor(color) ==
    /\ Len(color) = 7
    /\ color[1] = "#"
    /\ \A i \in 2 .. 7 : color[i] \in HexDigits

\* the board the first loop of update has reached when it comes to the k-th
\* cell of its visit order
BeforeCell(b, k) == FindNextFrom(b, SubSeq(VisitOrder(b), 1, k - 1), 1).board

(* C35: with a palette of '#RRGGBB' strings, every cell's colour is a      *)
(* '#RRGGBB' string in every reachable state; when the first loop of an    *)
(* update comes to a dead cell with 3 living neighbours, the colour it     *)
(* gives the cell is '#' followed by characters 1-2 of the first parent's  *)
(* colour, 3-4 of the second's and 5-6 of the third's; and running the     *)
(* neighbour query again for the same cell leaves the same board.          *)
C35_ColoursAreHexStrings ==
    /\ [](\A c \in DOMAIN board.cells : IsHexColor(board.cells[c].color))
    /\ [][UpdateStep =>
             \A k \in 1 .. Len(VisitOrder(board)) :
                 \A c \in {VisitOrder(board)[k]}, b \in {BeforeCell(board, k)} :
                     \A once \in {getLivingNeighbors(b, c[1], c[2])} :
                         /\ getLivingNeighbors(once.board, c[1], c[2]).board = once.board
                         /\ \A parents \in {aliveNeighbors(b, c[1], c[2])} :
                                (~b.cells[c].isAlive /\ Len(parents) = 3) =>
                                    once.board.cells[c].color =
                                        <<"#">> \o Substr(b.cells[parents[1]].color, 1, 2)
                                                \o Substr(b.cells[parents[2]].color, 3, 2)
                                                \o Substr(b.cells[parents[3]].color, 5, 2)]_vars

\* after a click in the second palette colour on a board seeded in the
\* first, an update has given a cell a colour that mixes the two
C35_Witness ==
    /\ op.name = "update"
    /\ \E c \in JustBorn :
          /\ IsHexColor(board.cells[c].color)
          /\ \E i, j \in {2, 4, 6} : board.cells[c].color[i] = "a" /\ board.cells[c].color[j] = "b"
    /\ \E d \in DOMAIN board.cells : board.cells[d].isAlive /\ board.cells[d].color = Palette[2]

=============================================================================
